---------------------------- MODULE Spec2Model ----------------------------
(***************************************************************************)
(* A model of buffer-language-server (src/src/main.rs): the Backend's      *)
(* document_text behind its Mutex, the handlers did_open, did_change,      *)
(* did_close and completion, and the pure functions they call              *)
(* (get_char_index_from_position, find_word_before_cursor, split,          *)
(* categorize_char).                                                       *)
(*                                                                         *)
(* A char is its Unicode code point, a string (&str, String) the sequence  *)
(* of its chars.  Rust's str offsets are byte offsets into the UTF-8       *)
(* encoding: len_utf8 gives a char's width and the offset operators        *)
(* below convert between byte offsets and char counts, the way s.len(),    *)
(* char_indices() and replace_range see the string.                        *)
(***************************************************************************)
EXTENDS Integers, Sequences, FiniteSets

(***************************************************************************)
(* Bounds of the model.                                                    *)
(***************************************************************************)
\* longest text handed to a pure function
MaxTextLen == 3
\* longest document_text the handlers build
MaxBufLen == 3
\* longest text a did_open carries
MaxOpenLen == 2
\* largest line index of a Position
MaxLine == 1
\* largest character index of a Position sent to a handler
MaxCol == 2

(***************************************************************************)
(* Strings.                                                                *)
(***************************************************************************)
\* 'a' 'b' ' ' '\n' '\r' and HIRAGANA LETTER A (three bytes in UTF-8)
Alphabet == {97, 98, 32, 10, 13, 12354}

\* the chars the handlers' texts are made of
BufferAlphabet == {97, 10, 12354}

RECURSIVE StringsUpTo(_, _)
StringsUpTo(chars, n) ==
    IF n = 0 THEN {<<>>}
    ELSE LET shorter == StringsUpTo(chars, n - 1)
         IN  shorter \cup {Append(s, c) : s \in shorter, c \in chars}

\* "foo bar foo"
FooBarFoo == <<102, 111, 111, 32, 98, 97, 114, 32, 102, 111, 111>>

\* char::len_utf8
len_utf8(ch) ==
    IF ch < 128 THEN 1 ELSE IF ch < 2048 THEN 2 ELSE IF ch < 65536 THEN 3 ELSE 4

\* str::len: the length in bytes
RECURSIVE ByteLen(_)
ByteLen(s) == IF s = <<>> THEN 0 ELSE len_utf8(Head(s)) + ByteLen(Tail(s))

\* the byte offset at which the char of (0-based) index k starts
ByteOffsetOfChar(s, k) == ByteLen(SubSeq(s, 1, k))

\* str::is_char_boundary
is_char_boundary(s, off) == \E k \in 0..Len(s) : ByteOffsetOfChar(s, k) = off

\* the number of chars before byte offset off, a char boundary of s
CharsBefore(s, off) == CHOOSE k \in 0..Len(s) : ByteOffsetOfChar(s, k) = off

\* s.char_indices().nth(n).unwrap_or_default().0: the byte offset of the
\* n-th char, and the default (0, '\0') when s has no n-th char
NthCharOffsetOrDefault(s, n) == IF n < Len(s) THEN ByteOffsetOfChar(s, n) ELSE 0

Reverse(s) == [i \in 1..Len(s) |-> s[Len(s) + 1 - i]]

RECURSIVE Concat(_)
Concat(ss) == IF ss = <<>> THEN <<>> ELSE Head(ss) \o Concat(Tail(ss))

\* str::split_inclusive('\n'): the pieces end with their '\n', the last one
\* need not, and the empty string has no piece
RECURSIVE SplitInclusive(_, _)
SplitInclusive(s, piece) ==
    IF s = <<>> THEN (IF piece = <<>> THEN <<>> ELSE <<piece>>)
    ELSE IF Head(s) = 10 THEN <<Append(piece, 10)>> \o SplitInclusive(Tail(s), <<>>)
    ELSE SplitInclusive(Tail(s), Append(piece, Head(s)))

\* what str::lines does to a piece: strip the '\n' and then a '\r' before it
StripLineEnding(piece) ==
    IF piece = <<>> \/ piece[Len(piece)] # 10 THEN piece
    ELSE LET body == SubSeq(piece, 1, Len(piece) - 1)
         IN  IF body # <<>> /\ body[Len(body)] = 13
             THEN SubSeq(body, 1, Len(body) - 1)
             ELSE body

\* str::lines
Lines(s) ==
    LET pieces == SplitInclusive(s, <<>>)
    IN  [i \in 1..Len(pieces) |-> StripLineEnding(pieces[i])]

(***************************************************************************)
(* The character classifier.                                               *)
(***************************************************************************)
char_is_hiragana(ch) ==
    \/ ch \in 12353..12438 \/ ch \in 12441..12447   \* U+3041..3096, U+3099..309F
    \/ ch \in 110848..110895                        \* U+1B100..1B12F
    \/ ch \in 110576..110591                        \* U+1AFF0..1AFFF
    \/ ch \in 110592..110847                        \* U+1B000..1B0FF
    \/ ch \in 110896..110959                        \* U+1B130..1B16F

char_is_katakana(ch) == ch \in 12448..12543         \* U+30A0..30FF

char_is_kanji(ch) ==
    \/ ch \in 19968..40959                          \* U+4E00..9FFF
    \/ ch \in 13312..19903                          \* U+3400..4DBF
    \/ ch \in 131072..173791                        \* U+20000..2A6DF
    \/ ch \in 173824..177977                        \* U+2A700..2B739
    \/ ch \in 177984..178205                        \* U+2B740..2B81D
    \/ ch \in 178208..183969                        \* U+2B820..2CEA1
    \/ ch \in 183984..191456                        \* U+2CEB0..2EBE0
    \/ ch \in 196608..201546                        \* U+30000..3134A
    \/ ch \in 201552..205743                        \* U+31350..323AF
    \/ ch \in 191472..192093                        \* U+2EBF0..2EE5D
    \/ ch \in 63744..64255                          \* U+F900..FAFF
    \/ ch \in 194560..195103                        \* U+2F800..2FA1F

char_is_line_ending(ch) == ch \in {10, 11, 12, 13, 133, 8232, 8233}

char_is_whitespace(ch) ==
    \/ ch \in {9, 32, 160, 6158, 8239, 8287, 12288, 65279}
    \/ ch \in 8192..8203                            \* U+2000..200B

\* char::is_alphanumeric on the code points below 128 (the digits and the
\* letters), or '_'; the model's other chars are kana, caught before this test
char_is_word(ch) ==
    \/ ch \in 48..57 \/ ch \in 65..90 \/ ch \in 97..122
    \/ ch = 95

\* the general categories the function lists, on the code points below 128:
\* the printable chars that are neither letters nor digits nor the space
char_is_punctuation(ch) ==
    ch \in 33..47 \/ ch \in 58..64 \/ ch \in 91..96 \/ ch \in 123..126

categorize_char(ch) ==
    IF char_is_hiragana(ch) THEN "Hiragana"
    ELSE IF char_is_katakana(ch) THEN "Katakana"
    ELSE IF char_is_kanji(ch) THEN "Kanji"
    ELSE IF char_is_line_ending(ch) THEN "Eol"
    ELSE IF char_is_whitespace(ch) THEN "Whitespace"
    ELSE IF char_is_word(ch) THEN "Word"
    ELSE IF char_is_punctuation(ch) THEN "Punctuation"
    ELSE "Unknown"

is_boundary(a, b) == categorize_char(a) # categorize_char(b)


(***************************************************************************)
(* The pure functions of the engine.                                       *)
(***************************************************************************)
Min(a, b) == IF a < b THEN a ELSE b

\* s.lines().take(n).map(|line| line.len() + 1).sum()
RECURSIVE LineStart(_, _)
LineStart(lines, n) ==
    IF n = 0 THEN 0 ELSE LineStart(lines, n - 1) + ByteLen(lines[n]) + 1

\* line_start + position.character, before it is compared with s.len()
char_index_of(s, position) ==
    LET lines == Lines(s)
        line_start == LineStart(lines, Min(position.line, Len(lines)))
    IN  line_start + position.character

\* the translator without its clamp: char_index as it stands
get_char_index_unclamped(s, position) == char_index_of(s, position)

get_char_index_from_position(s, position) ==
    LET char_index == char_index_of(s, position)
    IN  IF char_index > ByteLen(s)
        THEN ByteLen(s)
        ELSE NthCharOffsetOrDefault(s, char_index)

\* the loop of split over s.char_indices(); i and word_start count chars
\* from 1, and the slices &s[word_start..i] are the SubSeqs
RECURSIVE split_loop(_, _, _, _, _)
split_loop(s, i, word_start, last_category, result) ==
    IF i > Len(s)
    THEN IF word_start <= Len(s)
         THEN Append(result, SubSeq(s, word_start, Len(s)))
         ELSE result
    ELSE LET current_category == categorize_char(s[i])
         IN  IF current_category # last_category
             THEN split_loop(s, i + 1, i, current_category,
                             Append(result, SubSeq(s, word_start, i - 1)))
             ELSE split_loop(s, i + 1, word_start, last_category, result)

\* split with the push after the loop forgotten: the last run is lost
RECURSIVE split_without_last(_, _, _, _, _)
split_without_last(s, i, word_start, last_category, result) ==
    IF i > Len(s)
    THEN result
    ELSE LET current_category == categorize_char(s[i])
         IN  IF current_category # last_category
             THEN split_without_last(s, i + 1, i, current_category,
                                     Append(result, SubSeq(s, word_start, i - 1)))
             ELSE split_without_last(s, i + 1, word_start, last_category, result)

\* s.chars().next().unwrap_or_default(): '\0' for the empty string
FirstCharOrDefault(s) == IF s = <<>> THEN 0 ELSE s[1]

split_dropping_last(s) ==
    split_without_last(s, 1, 1, categorize_char(FirstCharOrDefault(s)), <<>>)

split(s) == split_loop(s, 1, 1, categorize_char(FirstCharOrDefault(s)), <<>>)

\* the loop of find_word_before_cursor, for i in 0..=count, over the
\* reversed text; chars().nth(i + 1).unwrap_or(' ') past its end
RECURSIVE word_scan(_, _, _)
word_scan(rev, i, word) ==
    IF i > Len(rev) THEN word
    ELSE IF i < Len(rev)
    THEN LET ch == rev[i + 1]
             next == IF i + 1 < Len(rev) THEN rev[i + 2] ELSE 32
         IN  IF is_boundary(ch, next)
             THEN Append(word, ch)
             ELSE word_scan(rev, i + 1, Append(word, ch))
    ELSE word_scan(rev, i + 1, word)

\* text.lines().nth(n).unwrap_or_default()
NthLineOrDefault(text, n) ==
    IF n < Len(Lines(text)) THEN Lines(text)[n + 1] ELSE <<>>

find_word_before_cursor(text, position) ==
    LET current_line == NthLineOrDefault(text, position.line)
        byte_offset == NthCharOffsetOrDefault(current_line, position.character)
        text_start_to_cursor ==
            Reverse(SubSeq(current_line, 1, CharsBefore(current_line, byte_offset)))
    IN  word_scan(text_start_to_cursor, 0, <<>>)

\* HashSet::from_iter(words) as a sequence: each distinct word once.  The
\* iteration order of a HashSet is unspecified; this one is the order of the
\* first occurrences.
RECURSIVE Distinct(_, _)
Distinct(words, seen) ==
    IF words = <<>> THEN <<>>
    ELSE IF Head(words) \in seen THEN Distinct(Tail(words), seen)
    ELSE <<Head(words)>> \o Distinct(Tail(words), seen \cup {Head(words)})

\* the labels of the CompletionItems completion returns
completion_labels(text, position) ==
    LET words == split(text)
        current_word == find_word_before_cursor(text, position)
    IN  SelectSeq(Distinct(words, {}), LAMBDA word : word # current_word)

\* String::replace_range(start..end, _) panics unless both offsets are char
\* boundaries and start <= end <= len
replace_range_panics(s, start, end) ==
    \/ ~is_char_boundary(s, start)
    \/ ~is_char_boundary(s, end)
    \/ start > end
    \/ end > ByteLen(s)

replace_range(s, start, end, replace_with) ==
    SubSeq(s, 1, CharsBefore(s, start)) \o replace_with
        \o SubSeq(s, CharsBefore(s, end) + 1, Len(s))

(***************************************************************************)
(* The state.                                                              *)
(*                                                                         *)
(* document_text, locked and poisoned are Backend.document_text, the       *)
(* Mutex<String>: its text, whether a guard is alive, and its poison flag. *)
(* closed records that the last of did_open and did_close to be called     *)
(* was did_close.                                                          *)
(*                                                                         *)
(* The handlers are async fns polled by the one future main awaits         *)
(* (Server::serve): one handler executes at a time, and it gives way only  *)
(* at an .await.  Each handler has at most one, the client.log_message     *)
(* call that ends it, and std's Mutex::lock blocks the thread without      *)
(* giving way.  frame is the handler that executes, or the last one that   *)
(* did: its kind, its position (pc), its parameters and locals, which are  *)
(* dropped when it is suspended, returns or panics.  A handler suspended   *)
(* in log_message has nothing left to do but return, so the frame of one   *)
(* is dropped when the next handler is called.  frame.folded is the text   *)
(* that the changes did_change has applied so far make of the text it      *)
(* found.                                                                  *)
(*                                                                         *)
(* call is the application of one pure function to inputs of its own.      *)
(***************************************************************************)
VARIABLES document_text, locked, poisoned, closed, frame, call

vars == <<document_text, locked, poisoned, closed, frame, call>>

Pos(l, c) == [line |-> l, character |-> c]

\* the Positions the handlers receive
Positions == {Pos(l, c) : l \in 0..MaxLine, c \in 0..MaxCol}

\* the Positions the pure functions are applied to
CursorPositions ==
    {Pos(l, c) : l \in 0..MaxLine, c \in 0..(MaxTextLen + 1)} \cup {Pos(0, 11)}

Texts == StringsUpTo(Alphabet, MaxTextLen) \cup {FooBarFoo}

OpenTexts == StringsUpTo(BufferAlphabet, MaxOpenLen)

\* the replacement texts of range changes: "", "a" and "\n"
ChangeTexts == {<<>>, <<97>>, <<10>>}

\* TextDocumentContentChangeEvent: range (start and end when has_range) and text
Changes ==
    {[has_range |-> TRUE, start |-> p, end |-> q, text |-> t] :
        p \in Positions, q \in Positions, t \in ChangeTexts}
    \cup {[has_range |-> FALSE, start |-> Pos(0, 0), end |-> Pos(0, 0), text |-> t] :
        t \in OpenTexts}

NoFrame ==
    [kind |-> "none", pc |-> "idle", text |-> <<>>, has_range |-> FALSE,
     start |-> Pos(0, 0), end |-> Pos(0, 0), position |-> Pos(0, 0),
     response |-> <<>>, folded |-> <<>>]

NoCall ==
    [fn |-> "none", text |-> <<>>, position |-> Pos(0, 0),
     index |-> 0, word |-> <<>>, words |-> <<>>, labels |-> <<>>]

\* no handler executes: none was called yet, or the last one called is
\* suspended in log_message, has returned or has panicked
Parked == frame.pc \in {"idle", "await", "returned", "panicked"}

\* main: document_text: Arc::new(Mutex::new(String::new()))
Init ==
    /\ document_text = <<>>
    /\ locked = FALSE
    /\ poisoned = FALSE
    /\ closed = FALSE
    /\ frame = NoFrame
    /\ call = NoCall

(***************************************************************************)
(* The handlers.                                                           *)
(***************************************************************************)
\* self.document_text.lock().expect(FAILED_TO_ACQUIRE_LOCK_MSG) with the
\* PoisonError recovered instead (into_inner): the handler goes on
lock_ignoring_poison ==
    /\ frame.pc = "lock"
    /\ ~locked
    /\ locked' = TRUE
    /\ frame' = [frame EXCEPT !.pc =
                    CASE frame.kind = "did_open" -> "assign"
                      [] frame.kind = "did_change" -> "apply"
                      [] OTHER -> "complete"]
    /\ UNCHANGED <<document_text, poisoned, closed, call>>

\* self.document_text.lock().expect(FAILED_TO_ACQUIRE_LOCK_MSG): lock waits
\* while a guard is alive; on a poisoned Mutex it returns Err, expect panics
\* and the guard inside the error is dropped
lock ==
    /\ frame.pc = "lock"
    /\ ~locked
    /\ IF poisoned
       THEN /\ frame' = [NoFrame EXCEPT !.kind = frame.kind, !.pc = "panicked"]
            /\ UNCHANGED locked
       ELSE /\ locked' = TRUE
            /\ frame' = [frame EXCEPT !.pc =
                            CASE frame.kind = "did_open" -> "assign"
                              [] frame.kind = "did_change" -> "apply"
                              [] OTHER -> "complete"]
    /\ UNCHANGED <<document_text, poisoned, closed, call>>

\* did_open is called
did_open ==
    /\ Parked
    /\ \E text \in OpenTexts :
          frame' = [NoFrame EXCEPT !.kind = "did_open", !.pc = "lock", !.text = text]
    /\ closed' = FALSE
    /\ UNCHANGED <<document_text, locked, poisoned, call>>

\* did_open with the guard bound to a local that lives to the end of the fn,
\* across the log_message().await
did_open_assign_keeping_guard ==
    /\ frame.kind = "did_open"
    /\ frame.pc = "assign"
    /\ document_text' = frame.text
    /\ frame' = [frame EXCEPT !.pc = "log"]
    /\ UNCHANGED <<locked, poisoned, closed, call>>

\* *guard = params.text_document.text; the guard, a temporary, is dropped at
\* the end of the statement
did_open_assign ==
    /\ frame.kind = "did_open"
    /\ frame.pc = "assign"
    /\ document_text' = frame.text
    /\ locked' = FALSE
    /\ frame' = [frame EXCEPT !.pc = "log"]
    /\ UNCHANGED <<poisoned, closed, call>>

\* did_change is called
did_change ==
    /\ Parked
    /\ frame' = [NoFrame EXCEPT !.kind = "did_change", !.pc = "loop",
                                !.folded = document_text]
    /\ UNCHANGED <<document_text, locked, poisoned, closed, call>>

\* the offsets of a range change and what replace_range does with them
ChangeStart(s, change) == get_char_index_from_position(s, change.start)
ChangeEnd(s, change) == get_char_index_from_position(s, change.end)
ChangePanics(s, change) ==
    replace_range_panics(s, ChangeStart(s, change), ChangeEnd(s, change))
ChangeResult(s, change) ==
    replace_range(s, ChangeStart(s, change), ChangeEnd(s, change), change.text)

\* for change in params.content_changes: the next entry of the list, or its
\* end.  The loop reads no entry ahead, so the entries are drawn as it comes
\* to them; only entries that keep the text within MaxBufLen are drawn.
did_change_next ==
    /\ frame.kind = "did_change"
    /\ frame.pc = "loop"
    /\ \/ \E change \in Changes :
             /\ change.has_range /\ ~poisoned /\ ~ChangePanics(document_text, change)
                    => Len(ChangeResult(document_text, change)) <= MaxBufLen
             /\ frame' = [frame EXCEPT !.pc = "lock", !.text = change.text,
                                       !.has_range = change.has_range,
                                       !.start = change.start, !.end = change.end]
       \/ frame' = [frame EXCEPT !.pc = "log"]
    /\ UNCHANGED <<document_text, locked, poisoned, closed, call>>

\* Some(range): start, end and replace_range under the guard text, which the
\* end of the arm drops.  A panic of replace_range unwinds through the guard:
\* the Mutex is poisoned and released, and the text is as it was.
did_change_replace_range ==
    /\ frame.kind = "did_change"
    /\ frame.pc = "apply"
    /\ frame.has_range
    /\ LET start == get_char_index_from_position(document_text, frame.start)
           end == get_char_index_from_position(document_text, frame.end)
       IN  IF replace_range_panics(document_text, start, end)
           THEN /\ poisoned' = TRUE
                /\ locked' = FALSE
                /\ frame' = [NoFrame EXCEPT !.kind = "did_change", !.pc = "panicked"]
                /\ UNCHANGED document_text
           ELSE /\ document_text' = replace_range(document_text, start, end, frame.text)
                /\ locked' = FALSE
                /\ frame' = [NoFrame EXCEPT !.kind = "did_change", !.pc = "loop",
                                !.folded = ChangeResult(frame.folded, frame)]
                /\ UNCHANGED poisoned
    /\ UNCHANGED <<closed, call>>

\* None: *guard = change.text; the guard is dropped with the statement
did_change_assign ==
    /\ frame.kind = "did_change"
    /\ frame.pc = "apply"
    /\ ~frame.has_range
    /\ document_text' = frame.text
    /\ locked' = FALSE
    /\ frame' = [NoFrame EXCEPT !.kind = "did_change", !.pc = "loop",
                                !.folded = frame.text]
    /\ UNCHANGED <<poisoned, closed, call>>

\* did_close with the text cleared
did_close_clearing ==
    /\ Parked
    /\ document_text' = <<>>
    /\ frame' = [NoFrame EXCEPT !.kind = "did_close", !.pc = "log"]
    /\ closed' = TRUE
    /\ UNCHANGED <<locked, poisoned, call>>

\* did_close is called: it has nothing to do but log
did_close ==
    /\ Parked
    /\ frame' = [NoFrame EXCEPT !.kind = "did_close", !.pc = "log"]
    /\ closed' = TRUE
    /\ UNCHANGED <<document_text, locked, poisoned, call>>

\* self.client.log_message(..).await: the handler is suspended
log_message ==
    /\ frame.pc = "log"
    /\ frame' = [NoFrame EXCEPT !.kind = frame.kind, !.pc = "await"]
    /\ UNCHANGED <<document_text, locked, poisoned, closed, call>>

\* the await is over and the handler returns
log_message_done ==
    /\ frame.pc = "await"
    /\ frame' = [frame EXCEPT !.pc = "returned"]
    /\ UNCHANGED <<document_text, locked, poisoned, closed, call>>

\* completion is called
completion ==
    /\ Parked
    /\ \E position \in Positions :
          frame' = [NoFrame EXCEPT !.kind = "completion", !.pc = "lock",
                                   !.position = position]
    /\ UNCHANGED <<document_text, locked, poisoned, closed, call>>

\* words, current_word and the response under the guard text, which the
\* return drops; completion awaits nothing
completion_respond ==
    /\ frame.kind = "completion"
    /\ frame.pc = "complete"
    /\ frame' = [NoFrame EXCEPT !.kind = "completion", !.pc = "returned",
                    !.response = completion_labels(document_text, frame.position)]
    /\ locked' = FALSE
    /\ UNCHANGED <<document_text, poisoned, closed, call>>

Next ==
    \/ did_open \/ lock \/ did_open_assign
    \/ did_change \/ did_change_next \/ did_change_replace_range
    \/ did_change_assign
    \/ did_close \/ log_message \/ log_message_done
    \/ completion \/ completion_respond

Spec == Init /\ [][Next]_vars

(***************************************************************************)
(* The pure functions applied to inputs of their own.                      *)
(***************************************************************************)
PureInit ==
    /\ document_text = <<>>
    /\ locked = FALSE
    /\ poisoned = FALSE
    /\ closed = FALSE
    /\ frame = NoFrame
    /\ \E text \in Texts, position \in CursorPositions :
          call = [NoCall EXCEPT !.fn = "input", !.text = text, !.position = position]

apply_get_char_index_from_position ==
    /\ call.fn = "input"
    /\ call' = [call EXCEPT !.fn = "get_char_index_from_position",
                   !.index = get_char_index_from_position(call.text, call.position)]
    /\ UNCHANGED <<document_text, locked, poisoned, closed, frame>>

apply_split ==
    /\ call.fn = "input"
    /\ call' = [call EXCEPT !.fn = "split", !.words = split(call.text)]
    /\ UNCHANGED <<document_text, locked, poisoned, closed, frame>>

apply_find_word_before_cursor ==
    /\ call.fn = "input"
    /\ call' = [call EXCEPT !.fn = "find_word_before_cursor",
                   !.word = find_word_before_cursor(call.text, call.position)]
    /\ UNCHANGED <<document_text, locked, poisoned, closed, frame>>

apply_completion ==
    /\ call.fn = "input"
    /\ call' = [call EXCEPT !.fn = "completion",
                   !.labels = completion_labels(call.text, call.position)]
    /\ UNCHANGED <<document_text, locked, poisoned, closed, frame>>

PureNext ==
    \/ apply_get_char_index_from_position
    \/ apply_split
    \/ apply_find_word_before_cursor
    \/ apply_completion

PureSpec == PureInit /\ [][PureNext]_vars

(***************************************************************************)
(* What the properties below speak of.                                     *)
(***************************************************************************)
Range(f) == {f[i] : i \in DOMAIN f}

SingleByte(s) == \A i \in DOMAIN s : len_utf8(s[i]) = 1

\* the coordinate of the place after the first o chars of s: the number of
\* '\n' before it, and the number of chars since the last of them
PositionOfOffset(s, o) ==
    LET breaks == {i \in 1..o : s[i] = 10}
        last_break == IF breaks = {} THEN 0
                      ELSE CHOOSE i \in breaks : \A j \in breaks : j <= i
    IN  Pos(Cardinality(breaks), o - last_break)

\* the coordinate lies inside s or exactly at its end
InBuffer(s, position) == \E o \in 0..Len(s) : PositionOfOffset(s, o) = position

OffsetOfPosition(s, position) ==
    CHOOSE o \in 0..Len(s) : PositionOfOffset(s, o) = position

\* both coordinates lie inside s or exactly at its end, start not after end
WellFormedRange(s, start, end) ==
    /\ InBuffer(s, start)
    /\ InBuffer(s, end)
    /\ OffsetOfPosition(s, start) <= OffsetOfPosition(s, end)

\* the maximal run of chars of one category that ends at char index c of line
RunBefore(line, c) ==
    IF c = 0 THEN <<>>
    ELSE LET same_from(k) == \A i \in k..c : ~is_boundary(line[i], line[c])
             first == CHOOSE k \in 1..c :
                         same_from(k) /\ \A j \in 1..c : same_from(j) => k <= j
         IN  SubSeq(line, first, c)

CallLine == NthLineOrDefault(call.text, call.position.line)

(***************************************************************************)
(* The properties.                                                         *)
(***************************************************************************)

\* C1: when a range change reaches replace_range on a text of single-byte
\* chars, with start and end coordinates that lie inside the text or exactly
\* at its end and start not after end, the text afterwards is the text
\* before with exactly the chars between the two coordinates replaced by the
\* change's text.
C1_RangeReplacesSpan ==
    [][(/\ frame.kind = "did_change" /\ frame.pc = "apply" /\ frame.has_range
        /\ SingleByte(document_text)
        /\ WellFormedRange(document_text, frame.start, frame.end))
       => document_text' =
             SubSeq(document_text, 1, OffsetOfPosition(document_text, frame.start))
                \o frame.text
                \o SubSeq(document_text,
                          OffsetOfPosition(document_text, frame.end) + 1,
                          Len(document_text))]_vars

\* C2: a range change never fails: did_change never panics and the Mutex is
\* never poisoned, whatever the text and the coordinates.
C2_RangeChangeNeverFails ==
    /\ ~poisoned
    /\ ~(frame.kind = "did_change" /\ frame.pc = "panicked")

\* C3: for a cursor at a character index from 0 to the char count of its
\* line, find_word_before_cursor returns the maximal run of chars of one
\* category that ends at the cursor, in reading order.
C3_WordBeforeCursor ==
    (/\ call.fn = "find_word_before_cursor"
     /\ call.position.character <= Len(CallLine))
    => call.word = RunBefore(CallLine, call.position.character)

\* C4: when the run of same-category chars left of the cursor is non-empty
\* and is one of the tokens of the text, no label returned by completion is
\* that run, and no label is returned twice.
C4_CompletionExcludesWord ==
    (/\ call.fn = "completion"
     /\ call.position.character <= Len(CallLine))
    => LET word == RunBefore(CallLine, call.position.character)
       IN  /\ (word # <<>> /\ word \in Range(split(call.text)))
                 => word \notin Range(call.labels)
           /\ \A i, j \in DOMAIN call.labels :
                 call.labels[i] = call.labels[j] => i = j

\* C5: the offset get_char_index_from_position returns is never greater
\* than the length of the text, for any line and character index.
C5_OffsetWithinText ==
    call.fn = "get_char_index_from_position" => call.index <= ByteLen(call.text)

\* a coordinate past the end of a text of two lines, clamped to its length
C5_Witness ==
    /\ call.fn = "get_char_index_from_position"
    /\ Len(Lines(call.text)) = 2
    /\ char_index_of(call.text, call.position) > ByteLen(call.text)
    /\ call.index = ByteLen(call.text)

\* C6: the tokens split returns, concatenated in order, are the text; each
\* token is non-empty and of one category; adjacent tokens differ in
\* category; the empty text has no token.
C6_SplitRoundTrip ==
    call.fn = "split" =>
        LET words == call.words
        IN  /\ Concat(words) = call.text
            /\ \A i \in DOMAIN words :
                  /\ words[i] # <<>>
                  /\ \A j \in DOMAIN words[i] : ~is_boundary(words[i][j], words[i][1])
            /\ \A i \in 1..(Len(words) - 1) :
                  is_boundary(words[i][1], words[i + 1][1])
            /\ (call.text = <<>> => words = <<>>)

\* a text of three chars split in two tokens, one of them of two chars
C6_Witness ==
    /\ call.fn = "split"
    /\ Len(call.text) = 3
    /\ Len(call.words) = 2

\* C7 as stated: between a did_close and the next did_open the text of the
\* closed document is neither written nor read: no step changes it and no
\* completion returns a label.
C7_NoAccessAfterClose ==
    [][(closed /\ closed' /\ document_text # <<>>)
       => /\ document_text' = document_text
          /\ (frame'.response # frame.response => frame'.response = <<>>)]_vars

\* C7, amended: did_close leaves the text, the guard and the poison flag as
\* they are, and between a did_close and the next did_open the text is still
\* served: a completion returns the labels computed from it and a change
\* without a range replaces it.
C7_CloseKeepsText ==
    [][/\ (frame'.kind = "did_close"
             => UNCHANGED <<document_text, locked, poisoned>>)
       /\ (closed /\ frame.kind = "completion" /\ frame.pc = "complete")
          => frame'.response = completion_labels(document_text, frame.position)
       /\ (closed /\ frame.kind = "did_change" /\ frame.pc = "apply"
              /\ ~frame.has_range)
          => document_text' = frame.text]_vars

\* after did_close and before any did_open, a completion has returned labels
C7_Witness ==
    /\ closed
    /\ document_text # <<>>
    /\ frame.kind = "completion" /\ frame.pc = "returned"
    /\ frame.response # <<>>

\* C8: did_change applies the changes of its list one after another, each
\* to the text the one before it left: whenever it is between two changes or
\* past the last, the text is the fold of the changes so far over the text
\* it found, and a change without a range, or with a range whose
\* coordinates lie in the text with start not after end, is applied and the
\* loop goes on to the next.
C8_ChangesFoldInOrder ==
    /\ []((frame.kind = "did_change" /\ frame.pc \in {"loop", "log"})
            => document_text = frame.folded)
    /\ [][(/\ frame.kind = "did_change"
            /\ frame.pc = "apply"
            /\ (frame.has_range
                   => WellFormedRange(document_text, frame.start, frame.end)))
           => (frame'.pc = "loop" /\ document_text' = frame'.folded)]_vars

C10_PoisonedForGood ==
    [][poisoned
       => /\ poisoned'
          /\ document_text' = document_text
          /\ ~locked'
          /\ (frame.pc = "lock" => frame'.pc = "panicked")
          /\ frame'.pc \notin {"assign", "apply", "complete"}
          /\ (frame'.response # frame.response => frame'.response = <<>>)]_vars

\* on the poisoned Mutex a later did_open has panicked in lock, the text
\* left as it was
C10_Witness ==
    /\ poisoned
    /\ frame.kind = "did_open" /\ frame.pc = "panicked"
    /\ document_text # <<>>

=============================================================================
